---- MODULE Spec2Model ----
(***************************************************************************)
(* EntryAspect (crates/core_types/src/network/entry_aspect.rs): the six    *)
(* kinds of fact a node holds about an entry, with the operations          *)
(* type_hint, header, entry_address, content / try_from_content, the       *)
(* derived equality and the custom Hash, and a hash-and-equality keyed set *)
(* that deduplicates aspects delivered to several inserters.               *)
(***************************************************************************)
EXTENDS Integers, Sequences, FiniteSets, TLC

\* ------------------------------------------------------------------ bounds
MaxAddr == 2          \* addresses are 1..MaxAddr
MaxEntry == 2         \* entry payloads are 1..MaxEntry
MaxRemovals == 1      \* longest Vec<Address> of a LinkRemove
HashMod == 5          \* width of the hasher's output
NumInserters == 2     \* concurrent inserters into the set
MaxCopies == 1        \* copies of one payload in flight to one inserter

\* ------------------------------------------------- collaborators' values
Address == 1..MaxAddr
Entry == 1..MaxEntry
None == <<>>
Some(x) == <<x>>
OptionAddress == {None} \cup {Some(x) : x \in Address}

\* Entry::address(): the content address of an entry payload
Entry_address(e) == ((e - 1) % MaxAddr) + 1

EntryTypes == {"app"}
ChainHeader ==
    [entry_type : EntryTypes, entry_address : Address,
     link_update_delete : OptionAddress]

\* ChainHeader::address(): the content address of the header itself
ChainHeader_address(h) ==
    ((h.entry_address + 2 * Len(h.link_update_delete)
        + (IF h.link_update_delete = None THEN 0 ELSE h.link_update_delete[1]))
       % MaxAddr) + 1

TopChainHeader ==
    [entry_type |-> "app", entry_address |-> 1, link_update_delete |-> None]
\* link targets: two addresses are enough, only the encoding reads them
Targets == {1, MaxAddr}
Link == [base : Address, target : Targets, tag : {"tag"}, link_type : {"lt"}]
LinkData == [link : Link, top_chain_header : {TopChainHeader}]

\* the removal lists <<>>, <<1>>, <<1, 2>>, ... (no operation reads them)
Removals == {[i \in 1..n |-> ((i - 1) % MaxAddr) + 1] : n \in 0..MaxRemovals}

\* ------------------------------------------------------------ EntryAspect
Content(e, h) == [variant |-> "Content", entry |-> e, header |-> h]
Header(h) == [variant |-> "Header", header |-> h]
LinkAdd(l, h) == [variant |-> "LinkAdd", link_data |-> l, header |-> h]
LinkRemove(l, r, h) ==
    [variant |-> "LinkRemove", link_data |-> l, removals |-> r, header |-> h]
Update(e, h) == [variant |-> "Update", entry |-> e, header |-> h]
Deletion(h) == [variant |-> "Deletion", header |-> h]

EntryAspect ==
    {Content(e, h) : e \in Entry, h \in ChainHeader}
    \cup {Header(h) : h \in ChainHeader}
    \cup {LinkAdd(l, h) : l \in LinkData, h \in ChainHeader}
    \cup UNION {{LinkRemove(l, r, h) : l \in LinkData, h \in ChainHeader} : r \in Removals}
    \cup {Update(e, h) : e \in Entry, h \in ChainHeader}
    \cup {Deletion(h) : h \in ChainHeader}

Ok(x) == [ok |-> TRUE, val |-> x]
Err(x) == [ok |-> FALSE, err |-> x]

\* ------------------------------------------------------------- operations
type_hint_deletion_as_header(x) ==
    CASE x.variant = "Content" -> "content"
      [] x.variant = "Header" -> "header"
      [] x.variant = "LinkAdd" -> "link_add"
      [] x.variant = "LinkRemove" -> "link_remove"
      [] x.variant = "Update" -> "update"
      [] x.variant = "Deletion" -> "header"

type_hint(x) ==
    CASE x.variant = "Content" -> "content"
      [] x.variant = "Header" -> "header"
      [] x.variant = "LinkAdd" -> "link_add"
      [] x.variant = "LinkRemove" -> "link_remove"
      [] x.variant = "Update" -> "update"
      [] x.variant = "Deletion" -> "deletion"

header(x) == x.header

NoLinkUpdateDelete(h) ==
    [msg |-> "no link_update_delete on Update/Deletion entry header. Header: ",
     header |-> h]

entry_address_silent_fallback(x) ==
    CASE x.variant = "Content" -> Ok(x.header.entry_address)
      [] x.variant = "LinkAdd" -> Ok(x.link_data.link.base)
      [] x.variant = "LinkRemove" -> Ok(x.link_data.link.base)
      [] x.variant \in {"Update", "Deletion"} ->
            IF x.header.link_update_delete = None
            THEN Ok(x.header.entry_address)
            ELSE Ok(x.header.link_update_delete[1])
      [] x.variant = "Header" -> Ok(ChainHeader_address(x.header))

entry_address_update_from_header(x) ==
    CASE x.variant = "Content" -> Ok(x.header.entry_address)
      [] x.variant = "LinkAdd" -> Ok(x.link_data.link.base)
      [] x.variant = "LinkRemove" -> Ok(x.link_data.link.base)
      [] x.variant \in {"Update", "Deletion"} ->
            IF x.header.link_update_delete = None
            THEN Err(NoLinkUpdateDelete(x.header))
            ELSE Ok(x.header.entry_address)
      [] x.variant = "Header" -> Ok(ChainHeader_address(x.header))

entry_address_link_target(x) ==
    CASE x.variant = "Content" -> Ok(x.header.entry_address)
      [] x.variant = "LinkAdd" -> Ok(x.link_data.link.target)
      [] x.variant = "LinkRemove" -> Ok(x.link_data.link.base)
      [] x.variant \in {"Update", "Deletion"} ->
            IF x.header.link_update_delete = None
            THEN Err(NoLinkUpdateDelete(x.header))
            ELSE Ok(x.header.link_update_delete[1])
      [] x.variant = "Header" -> Ok(ChainHeader_address(x.header))

entry_address_recomputed(x) ==
    CASE x.variant = "Content" -> Ok(Entry_address(x.entry))
      [] x.variant = "LinkAdd" -> Ok(x.link_data.link.base)
      [] x.variant = "LinkRemove" -> Ok(x.link_data.link.base)
      [] x.variant \in {"Update", "Deletion"} ->
            IF x.header.link_update_delete = None
            THEN Err(NoLinkUpdateDelete(x.header))
            ELSE Ok(x.header.link_update_delete[1])
      [] x.variant = "Header" -> Ok(ChainHeader_address(x.header))

entry_address(x) ==
    CASE x.variant = "Content" -> Ok(x.header.entry_address)
      [] x.variant = "LinkAdd" -> Ok(x.link_data.link.base)
      [] x.variant = "LinkRemove" -> Ok(x.link_data.link.base)
      [] x.variant \in {"Update", "Deletion"} ->
            IF x.header.link_update_delete = None
            THEN Err(NoLinkUpdateDelete(x.header))
            ELSE Ok(x.header.link_update_delete[1])
      [] x.variant = "Header" -> Ok(ChainHeader_address(x.header))


\* derive(PartialEq) of ChainHeader: field by field
ChainHeader_eq(g, h) ==
    /\ g.entry_type = h.entry_type
    /\ g.entry_address = h.entry_address
    /\ g.link_update_delete = h.link_update_delete

LinkData_eq(k, l) ==
    /\ k.link.base = l.link.base
    /\ k.link.target = l.link.target
    /\ k.link.tag = l.link.tag
    /\ k.link.link_type = l.link.link_type
    /\ ChainHeader_eq(k.top_chain_header, l.top_chain_header)

\* an equality that, like the Hash impl's comment, looks at the entry
\* address only
eq_by_entry_address(x, y) ==
    /\ x.variant = y.variant
    /\ entry_address(x) = entry_address(y)

\* an equality made to agree with the Hash impl: header and variant only
eq_header_and_variant(x, y) ==
    /\ x.variant = y.variant
    /\ ChainHeader_eq(x.header, y.header)

\* derive(PartialEq, Eq) of EntryAspect: same variant, every field equal
eq(x, y) ==
    /\ x.variant = y.variant
    /\ CASE x.variant \in {"Content", "Update"} ->
                x.entry = y.entry /\ ChainHeader_eq(x.header, y.header)
         [] x.variant \in {"Header", "Deletion"} ->
                ChainHeader_eq(x.header, y.header)
         [] x.variant = "LinkAdd" ->
                LinkData_eq(x.link_data, y.link_data)
                /\ ChainHeader_eq(x.header, y.header)
         [] x.variant = "LinkRemove" ->
                /\ LinkData_eq(x.link_data, y.link_data)
                /\ x.removals = y.removals
                /\ ChainHeader_eq(x.header, y.header)

\* ----------------------------------------------------------------- Hasher
StrCode(s) ==
    CASE s = "app" -> 1
      [] s = "content" -> 2
      [] s = "header" -> 3
      [] s = "link_add" -> 4
      [] s = "link_remove" -> 5
      [] s = "update" -> 6
      [] s = "deletion" -> 7

write(state, n) == (state * 31 + n) % HashMod
\* str::hash writes the bytes and a 0xff terminator
write_str(state, s) == write(write(state, StrCode(s)), 255)
write_address(state, x) == write(write(state, x), 255)
\* Option::hash writes the discriminant, then the value
write_option(state, o) ==
    IF o = None THEN write(state, 0) ELSE write_address(write(state, 1), o[1])

ChainHeader_hash(h, state) ==
    write_option(
        write_address(write_str(state, h.entry_type), h.entry_address),
        h.link_update_delete)

write_payload(state, x) ==
    CASE x.variant \in {"Content", "Update"} -> write(state, x.entry)
      [] x.variant = "LinkAdd" ->
            write(write(state, x.link_data.link.base), x.link_data.link.target)
      [] x.variant = "LinkRemove" ->
            write(write(write(state, x.link_data.link.base),
                        x.link_data.link.target), Len(x.removals))
      [] OTHER -> state

hash_full_payload(x) ==
    write_str(write_payload(ChainHeader_hash(header(x), 0), x), type_hint(x))

hash(x) == write_str(ChainHeader_hash(header(x), 0), type_hint(x))

\* ------------------------------------------------- content (JSON) encoding
JNull == [t |-> "null"]
JStr(x) == [t |-> "str", v |-> x]
JArr(xs) == [t |-> "arr", v |-> xs]
JObj(keys, vals) == [t |-> "obj", k |-> keys, v |-> vals]
IsArr(j, n) == j.t = "arr" /\ Len(j.v) = n
IsObj(j, keys) == j.t = "obj" /\ j.k = keys
JsonError == Err("JsonError")

HeaderKeys == <<"entry_type", "entry_address", "link_update_delete">>
ser_header(h) ==
    JObj(HeaderKeys,
         <<JStr(h.entry_type), JStr(h.entry_address),
           IF h.link_update_delete = None THEN JNull
           ELSE JStr(h.link_update_delete[1])>>)
is_header(j) ==
    /\ IsObj(j, HeaderKeys)
    /\ j.v[1].t = "str"
    /\ j.v[2].t = "str"
    /\ j.v[3].t \in {"null", "str"}
de_header(j) ==
    [entry_type |-> j.v[1].v, entry_address |-> j.v[2].v,
     link_update_delete |-> IF j.v[3].t = "null" THEN None ELSE Some(j.v[3].v)]

ser_entry(e) == JObj(<<"App">>, <<JStr(e)>>)
is_entry(j) == IsObj(j, <<"App">>) /\ j.v[1].t = "str"
de_entry(j) == j.v[1].v

LinkKeys == <<"base", "target", "tag", "link_type">>
LinkDataKeys == <<"link", "top_chain_header">>
ser_link_data(l) ==
    JObj(LinkDataKeys,
         <<JObj(LinkKeys, <<JStr(l.link.base), JStr(l.link.target),
                            JStr(l.link.tag), JStr(l.link.link_type)>>),
           ser_header(l.top_chain_header)>>)
is_link_data(j) ==
    /\ IsObj(j, LinkDataKeys)
    /\ IsObj(j.v[1], LinkKeys)
    /\ \A i \in 1..4 : j.v[1].v[i].t = "str"
    /\ is_header(j.v[2])
de_link_data(j) ==
    [link |-> [base |-> j.v[1].v[1].v, target |-> j.v[1].v[2].v,
               tag |-> j.v[1].v[3].v, link_type |-> j.v[1].v[4].v],
     top_chain_header |-> de_header(j.v[2])]

ser_addresses(r) == JArr([i \in 1..Len(r) |-> JStr(r[i])])
is_addresses(j) == j.t = "arr" /\ \A i \in 1..Len(j.v) : j.v[i].t = "str"
de_addresses(j) == [i \in 1..Len(j.v) |-> j.v[i].v]

\* the body of the variant, under the key K
ser_variant(K, x) ==
    JObj(<<K>>,
         <<CASE x.variant \in {"Content", "Update"} ->
                    JArr(<<ser_entry(x.entry), ser_header(x.header)>>)
             [] x.variant \in {"Header", "Deletion"} -> ser_header(x.header)
             [] x.variant = "LinkAdd" ->
                    JArr(<<ser_link_data(x.link_data), ser_header(x.header)>>)
             [] x.variant = "LinkRemove" ->
                    JArr(<<JArr(<<ser_link_data(x.link_data),
                                  ser_addresses(x.removals)>>),
                           ser_header(x.header)>>)>>)

\* Update written under Content's key: the two variants have the same shape
content_update_as_content(x) ==
    ser_variant(IF x.variant = "Update" THEN "Content" ELSE x.variant, x)

\* AddressableContent::content: the derived Serialize, externally tagged
content(x) == ser_variant(x.variant, x)

\* AddressableContent::try_from_content: the derived Deserialize
try_from_content(c) ==
    IF c.t # "obj" \/ Len(c.k) # 1 THEN JsonError
    ELSE LET key == c.k[1]
             body == c.v[1]
         IN CASE key \in {"Content", "Update"} ->
                    IF IsArr(body, 2) /\ is_entry(body.v[1]) /\ is_header(body.v[2])
                    THEN Ok([variant |-> key, entry |-> de_entry(body.v[1]),
                             header |-> de_header(body.v[2])])
                    ELSE JsonError
              [] key \in {"Header", "Deletion"} ->
                    IF is_header(body)
                    THEN Ok([variant |-> key, header |-> de_header(body)])
                    ELSE JsonError
              [] key = "LinkAdd" ->
                    IF IsArr(body, 2) /\ is_link_data(body.v[1]) /\ is_header(body.v[2])
                    THEN Ok(LinkAdd(de_link_data(body.v[1]), de_header(body.v[2])))
                    ELSE JsonError
              [] key = "LinkRemove" ->
                    IF /\ IsArr(body, 2)
                       /\ IsArr(body.v[1], 2)
                       /\ is_link_data(body.v[1].v[1])
                       /\ is_addresses(body.v[1].v[2])
                       /\ is_header(body.v[2])
                    THEN Ok(LinkRemove(de_link_data(body.v[1].v[1]),
                                       de_addresses(body.v[1].v[2]),
                                       de_header(body.v[2])))
                    ELSE JsonError
              [] OTHER -> JsonError

\* contents that no aspect serializes to
ForeignContent ==
    {JNull, JObj(<<"Entry">>, <<JNull>>), JObj(<<"Deletion">>, <<JNull>>),
     JObj(<<"Content">>, <<JArr(<<>>)>>)}

\* -------------------------------------------- set keyed by hash and eq
Buckets == 0..(HashMod - 1)
EmptyTable == [h \in Buckets |-> <<>>]
contains(t, x) == \E i \in 1..Len(t[hash(x)]) : eq(t[hash(x)][i], x)
insert(t, x) ==
    IF contains(t, x) THEN t ELSE [t EXCEPT ![hash(x)] = Append(@, x)]
Elements(t) == UNION {{t[h][i] : i \in 1..Len(t[h])} : h \in Buckets}
Size(t) == LET RECURSIVE sum(_)
               sum(h) == IF h < 0 THEN 0 ELSE Len(t[h]) + sum(h - 1)
           IN sum(HashMod - 1)

\* ------------------------------------------------------------------ state
VARIABLES
    a, b,        \* two constructed aspects (immutable once constructed)
    op,          \* the operation applied last
    ra, rb,      \* its result on a and on b
    table,       \* the set keyed by hash and eq: bucket -> aspects
    inbox,       \* inserter -> bag of payloads in flight to it
    delivered,   \* the aspects inserted so far
    dup          \* an aspect equal to one already present was inserted

vars == <<a, b, op, ra, rb, table, inbox, delivered, dup>>
aspectVars == <<a, b, op, ra, rb>>
setVars == <<table, inbox, delivered, dup>>

Inserters == 1..NumInserters
NoResult == "none"

\* the duplicate gossip payloads: aspects about one entry, two of them
\* sharing header and variant
GossipHeader ==
    [entry_type |-> "app", entry_address |-> 1, link_update_delete |-> Some(1)]
GossipPool ==
    {Content(1, GossipHeader), Content(MaxEntry, GossipHeader),
     Deletion(GossipHeader)}
NoPayload == [x \in GossipPool |-> 0]

Init ==
    /\ a \in EntryAspect
    /\ b \in EntryAspect
    /\ op = "new"
    /\ ra = NoResult
    /\ rb = NoResult
    /\ table = EmptyTable
    /\ inbox = [i \in Inserters |-> NoPayload]
    /\ delivered = {}
    /\ dup = FALSE

Apply(name, x, y) ==
    /\ op' = name
    /\ ra' = x
    /\ rb' = y
    /\ UNCHANGED <<a, b, setVars>>

TypeHint == Apply("type_hint", type_hint(a), type_hint(b))
HeaderOf == Apply("header", header(a), header(b))
EntryAddress == Apply("entry_address", entry_address(a), entry_address(b))
HashOf == Apply("hash", hash(a), hash(b))
Equals == Apply("eq", eq(a, b), eq(b, a))
Serialize == Apply("content", content(a), content(b))
Deserialize ==
    /\ op = "content"
    /\ Apply("try_from_content", try_from_content(ra), try_from_content(rb))
DeserializeForeign ==
    \E c \in ForeignContent :
        Apply("try_from_foreign", try_from_content(c), try_from_content(c))

Next ==
    \/ TypeHint
    \/ HeaderOf
    \/ EntryAddress
    \/ HashOf
    \/ Equals
    \/ Serialize
    \/ Deserialize
    \/ DeserializeForeign

Spec == Init /\ [][Next]_vars

\* --------------------------------------- concurrent insertion into the set
InitSet ==
    /\ a = Deletion(GossipHeader)
    /\ b = Deletion(GossipHeader)
    /\ op = "new"
    /\ ra = NoResult
    /\ rb = NoResult
    /\ table = EmptyTable
    /\ inbox \in [Inserters -> [GossipPool -> 0..MaxCopies]]
    /\ delivered = {}
    /\ dup = FALSE

\* inserter i inserts one of the payloads in flight to it, in any order
Insert(i, x) ==
    /\ inbox[i][x] > 0
    /\ table' = insert(table, x)
    /\ inbox' = [inbox EXCEPT ![i][x] = @ - 1]
    /\ delivered' = delivered \cup {x}
    /\ dup' = (dup \/ contains(table, x))
    /\ UNCHANGED aspectVars

NextSet == \E i \in Inserters, x \in GossipPool : Insert(i, x)

SpecSet == InitSet /\ [][NextSet]_vars

AllInserted == \A i \in Inserters : inbox[i] = NoPayload

\* ----------------------------------------------------------------- claims
Tags == {"content", "header", "link_add", "link_remove", "update", "deletion"}
IsCrud(x) == x.variant \in {"Update", "Deletion"}
IsLink(x) == x.variant \in {"LinkAdd", "LinkRemove"}
HasEntry(x) == x.variant \in {"Content", "Update"}

\* C1: entry_address fails exactly for an Update or a Deletion whose header
\* has no link_update_delete; for every other aspect it returns Ok.
C1_ErrorIffReferenceAbsent ==
    op = "entry_address" =>
        /\ ~ra.ok <=> (IsCrud(a) /\ a.header.link_update_delete = None)
        /\ ~rb.ok <=> (IsCrud(b) /\ b.header.link_update_delete = None)

C1_Witness ==
    /\ op = "entry_address"
    /\ a.variant = "Deletion" /\ a.header.link_update_delete = None /\ ~ra.ok
    /\ b.variant = "Update" /\ b.header.link_update_delete # None /\ rb.ok

\* C2: an Update or a Deletion whose header references address X resolves to
\* Ok(X), whatever the entry and whatever entry address the header records.
C2_CrudResolvesToReference ==
    (op = "entry_address" /\ IsCrud(a) /\ a.header.link_update_delete # None) =>
        /\ ra = Ok(a.header.link_update_delete[1])
        /\ (IsCrud(b) /\ b.header.link_update_delete = a.header.link_update_delete)
              => rb = ra

C2_Witness ==
    /\ op = "entry_address"
    /\ a.variant = "Update" /\ b.variant = "Deletion"
    /\ a.header.link_update_delete # None
    /\ b.header.link_update_delete = a.header.link_update_delete
    /\ a.header.entry_address # a.header.link_update_delete[1]
    /\ b.header.entry_address # a.header.entry_address
    /\ Entry_address(a.entry) # a.header.link_update_delete[1]
    /\ ra = Ok(a.header.link_update_delete[1])
    /\ rb = ra

\* C3: a LinkAdd or a LinkRemove resolves to Ok(base of its link), whatever
\* the header, the removal addresses and the link's target.
C3_LinkResolvesToBase ==
    (op = "entry_address" /\ IsLink(a)) =>
        /\ ra = Ok(a.link_data.link.base)
        /\ (IsLink(b) /\ b.link_data.link.base = a.link_data.link.base) => rb = ra

C3_Witness ==
    /\ op = "entry_address"
    /\ a.variant = "LinkAdd" /\ b.variant = "LinkRemove"
    /\ b.link_data.link.base = a.link_data.link.base
    /\ a.link_data.link.target # a.link_data.link.base
    /\ b.link_data.link.target # a.link_data.link.target
    /\ b.removals # <<>>
    /\ a.header.entry_address # a.link_data.link.base
    /\ ~ChainHeader_eq(a.header, b.header)
    /\ ra = Ok(a.link_data.link.base)
    /\ rb = ra

\* C4: a Content aspect resolves to Ok(the entry address recorded in its
\* header), also when the entry's own address is a different one.
C4_ContentResolvesToHeaderEntryAddress ==
    (op = "entry_address" /\ a.variant = "Content") =>
        ra = Ok(a.header.entry_address)

C4_Witness ==
    /\ op = "entry_address"
    /\ a.variant = "Content"
    /\ Entry_address(a.entry) # a.header.entry_address
    /\ ra = Ok(a.header.entry_address)

\* C5: aspects that are equal hash equal.
C5_EqualImpliesHashEqual ==
    (op = "hash" /\ eq(a, b)) => ra = rb

C5_Witness ==
    /\ op = "hash"
    /\ a.variant = "LinkRemove"
    /\ a.removals # <<>>
    /\ eq(a, b)
    /\ ra = rb

\* C6: whatever the interleaving of the inserters, the set holds exactly the
\* distinct aspects inserted so far, each once: inserting an aspect equal to
\* one already present changes nothing, and the contents are the same for
\* every order of arrival.
C6_SetHoldsEachInsertedAspectOnce ==
    /\ Elements(table) = delivered
    /\ Size(table) = Cardinality(delivered)

C6_Witness ==
    /\ AllInserted
    /\ dup
    /\ \E x, y \in Elements(table) : x # y /\ hash(x) = hash(y)
    /\ Size(table) = Cardinality(GossipPool)

\* C7: deserializing the serialization of an aspect succeeds and returns an
\* aspect equal to it.
C7_RoundTrip ==
    op = "try_from_content" =>
        /\ ra.ok /\ eq(ra.val, a)
        /\ rb.ok /\ eq(rb.val, b)

C7_Witness ==
    /\ op = "try_from_content"
    /\ a.variant = "LinkRemove" /\ a.removals # <<>>
    /\ b.variant = "Update" /\ b.header.link_update_delete = None
    /\ ra = Ok(a)
    /\ rb = Ok(b)

\* C9: type_hint returns one of the six tags, and two aspects get the same
\* tag exactly when they are of the same variant.
C9_TypeHintInjectiveOnVariant ==
    op = "type_hint" =>
        /\ ra \in Tags
        /\ rb \in Tags
        /\ ra = rb <=> a.variant = b.variant

C9_Witness ==
    /\ op = "type_hint"
    /\ a.variant = "Deletion" /\ ra = "deletion"
    /\ b.variant = "Header" /\ rb = "header"

====
